---- MODULE Spec2Model ----
(***************************************************************************)
(* Model of Project/main.js: the split-building batch loader, the walkway  *)
(* and generic GeoJSON loaders, the timeline callbacks that drive the      *)
(* building animator, and pointer selection with its highlight state.      *)
(*                                                                         *)
(* BuildingAnimator and TimelineUI are used by main.js but are not part of *)
(* the sources at hand; the animator is modelled from the specification    *)
(* (section 4.4 and 4.5), the timeline UI as an environment that may call  *)
(* its two callbacks at any time.                                          *)
(***************************************************************************)
EXTENDS Integers, Sequences, FiniteSets, TLC

\* ------------------------------------------------------------------ bounds

\* Number of entries of buildingFiles (53 in the source).
NumFiles == 3

\* Number of animation frames a reveal or hide animation takes.
AnimFrames == 2

\* const buildingsPerBatch = 100, scaled down so that NumFiles spans more
\* than one batch.
buildingsPerBatch == 2

\* Math.min
Min(a, b) == IF a < b THEN a ELSE b

CeilDiv(a, b) == (a + b - 1) \div b

\* ------------------------------------------------------------- input data

\* A feature of a GeoJSON file.  nullGeometry: feature.geometry is missing,
\* so that reading feature.geometry.type throws.  polys: the length of the
\* outer ring (polygon[0].length) of each polygon of the feature (one for a
\* Polygon, several for a MultiPolygon).  fill: properties.fill.
Feature(polys, fill) == [nullGeometry |-> FALSE, polys |-> polys, fill |-> fill]

BadFeature == [nullGeometry |-> TRUE, polys |-> <<>>, fill |-> "none"]

\* What a fetch delivers.  ok = FALSE: the request fails or the body is not
\* JSON (fetch or res.json() rejects).
Payload(features) == [ok |-> TRUE, features |-> features]

FailedFetch == [ok |-> FALSE, features |-> <<>>]

\* The bodies a building file may have.
BuildingPayloads ==
    { FailedFetch,
      Payload(<< >>),
      Payload(<< Feature(<<4>>, "none") >>),
      Payload(<< Feature(<<2, 3>>, "none") >>),
      Payload(<< Feature(<<3>>, "none"), BadFeature >>) }

\* The bodies data/walkways.geojson may have: features of one ring each,
\* those filled #ff0000 being holes.
WalkwayPayloads ==
    { FailedFetch,
      Payload(<< Feature(<<5>>, "#cccccc"), Feature(<<4>>, "#ff0000") >>),
      Payload(<< Feature(<<2>>, "#cccccc"), Feature(<<3>>, "#cccccc") >>) }

\* The bodies data/roads.geojson may have.
RoadPayloads ==
    { FailedFetch,
      Payload(<< Feature(<<4>>, "none") >>),
      Payload(<< Feature(<<0, 3>>, "none"), BadFeature >>) }

\* buildingFiles[i], 0-based as in the source: 'building_<stem>.geojson'.
buildingFiles == [i \in 0..(NumFiles - 1) |-> <<"building_", i + 1, ".geojson">>]

FileIndex == 0..(NumFiles - 1)

\* fileName.replace(/^building_/, '').replace(/\.geojson$/, '')
cleanFileName(fileName) == fileName[2]

\* createMaterials().buildingMaterials: whether each descriptor's material
\* has an emissive colour (a MeshStandardMaterial has, a MeshBasicMaterial
\* has not).  materials.js is not part of the sources; both kinds are kept.
buildingMaterials == << [emissive |-> TRUE], [emissive |-> FALSE] >>

\* emissive.setHex arguments of highlightBuilding
HexNeutral == 0

HexHighlight == 1716300

\* The ground plane, added to campusGroup at start-up.
Ground == [kind |-> "ground", name |-> 0, feat |-> 0, poly |-> 0, ring |-> 4,
           emissive |-> FALSE, holes |-> 0]

NoMesh == [kind |-> "none", name |-> 0, feat |-> 0, poly |-> 0, ring |-> 0,
           emissive |-> FALSE, holes |-> 0]

VARIABLES
    fetchState,             \* per building file: unstarted, pending, loaded, failed
    response,               \* per building file: the payload its fetch delivered
    loadedCount,            \* let loadedCount
    conts,                  \* pending continuations of loadBatch: Promise.all, timers
    batches,                \* the promises arrays loadBatch has built, when not empty
    timelineStarts,         \* number of calls of startTimeline
    campusGroup,            \* campusGroup.children
    buildingMaterialCursor, \* let buildingMaterialCursor
    registerLog,            \* meshes passed to buildingAnimator.registerBuilding
    walkState,              \* fetch of data/walkways.geojson: pending, done
    roadState,              \* fetch of data/roads.geojson: pending, done
    registry,               \* animator: building id -> record
    currentYear,            \* animator: year of the last showBuildingsUpToYear
    paused,                 \* animator: setPaused
    highlightedBuilding,    \* let highlightedBuilding
    emissiveHex,            \* mesh -> material.emissive colour
    panel,                  \* argument of the last infoPanel.update
    lastHit                 \* intersects[0].object of the last pointer-down

loaderVars == <<fetchState, response, loadedCount, conts, batches,
                timelineStarts, campusGroup, buildingMaterialCursor, registerLog>>

geoVars == <<walkState, roadState>>

animVars == <<registry, currentYear, paused>>

selVars == <<highlightedBuilding, emissiveHex, panel, lastHit>>

vars == <<fetchState, response, loadedCount, conts, batches,
          timelineStarts, campusGroup, buildingMaterialCursor, registerLog,
          walkState, roadState, registry, currentYear, paused,
          highlightedBuilding, emissiveHex, panel, lastHit>>


\* --------------------------------------------------------------- geometry

RECURSIVE PolygonsBeforeThrow(_, _)
\* The polygons visited by data.features.forEach(feature => polygons.forEach(...))
\* in order, up to the first feature whose geometry cannot be read (the
\* TypeError ends the loop).
PolygonsBeforeThrow(features, k) ==
    IF k > Len(features) THEN << >>
    ELSE IF features[k].nullGeometry THEN << >>
    ELSE [j \in 1..Len(features[k].polys) |->
              [feat |-> k, poly |-> j, ring |-> features[k].polys[j],
               fill |-> features[k].fill]]
         \o PolygonsBeforeThrow(features, k + 1)

\* Whether processing the features throws.
Throws(features) == \E k \in 1..Len(features) : features[k].nullGeometry

\* loadBatch: if (!polygon || !polygon[0] || polygon[0].length < 3) return;
skipPolygon(ring) == ring < 3

\* loadGeoJson: if (!polygon || !polygon[0] || polygon[0].length < 3) return;
skipPolygonGeoJson(ring) == ring < 3

\* The meshes the then-callback of one building fetch creates, in order:
\* one per polygon that is not skipped, its material cloned from
\* buildingMaterials[buildingMaterialCursor % length].
BuildingMeshes(fileName, features, cursor) ==
    LET visited == PolygonsBeforeThrow(features, 1)
        kept == SelectSeq(visited, LAMBDA q : ~skipPolygon(q.ring))
    IN  [k \in 1..Len(kept) |->
            [kind |-> "building", name |-> cleanFileName(fileName),
             feat |-> kept[k].feat, poly |-> kept[k].poly, ring |-> kept[k].ring,
             emissive |-> buildingMaterials[((cursor + k - 1) % Len(buildingMaterials)) + 1].emissive,
             holes |-> 0]]

\* The meshes loadGeoJson creates for a file that is not a building file
\* (options.material, options.extrudeSettings).
GeoJsonMeshes(features) ==
    LET visited == PolygonsBeforeThrow(features, 1)
        kept == SelectSeq(visited, LAMBDA q : ~skipPolygonGeoJson(q.ring))
    IN  { [kind |-> "road", name |-> 0, feat |-> kept[k].feat, poly |-> kept[k].poly,
           ring |-> kept[k].ring, emissive |-> FALSE, holes |-> 0] : k \in 1..Len(kept) }

\* The meshes loadWalkways creates: one per feature not filled #ff0000, from
\* its first ring, whatever its length; the features filled #ff0000 are the
\* holes of every shape.  A feature without geometry among the holes throws
\* before any mesh is made.
WalkwayMeshes(features) ==
    LET isHole(f) == f.fill = "#ff0000"
        holeIdx == { k \in 1..Len(features) : isHole(features[k]) }
        mainIdx == { k \in 1..Len(features) : ~isHole(features[k]) }
        thrown == { k \in mainIdx : features[k].nullGeometry }
        done(k) == \A t \in thrown : k < t
    IN  IF \E k \in holeIdx : features[k].nullGeometry THEN {}
        ELSE { [kind |-> "walkway", name |-> 0, feat |-> k, poly |-> 1,
                ring |-> features[k].polys[1], emissive |-> FALSE,
                holes |-> Cardinality(holeIdx)] : k \in { m \in mainIdx : done(m) } }

\* The set of elements of a sequence.
Range(s) == { s[k] : k \in 1..Len(s) }

\* ---------------------------------------------------------------- animator
\* BuildingAnimator, modelled from the specification.

\* BuildingRecord.constructionYear by building id.
constructionYear(id) ==
    CASE id = 1 -> 2001
      [] id = 2 -> 2005
      [] OTHER  -> 2010

\* The years the timeline UI may report.
TimelineYears == {2000, 2005, 2010}

\* register(id, mesh): inserts or overwrites by id; a new record is Hidden.
registerBuilding(reg, id, mesh) ==
    (id :> [mesh |-> mesh, state |-> "Hidden", progress |-> 0]) @@ reg

RECURSIVE registerAll(_, _, _)
\* registerBuilding for each mesh of a sequence, in order.
registerAll(reg, meshes, k) ==
    IF k > Len(meshes) THEN reg
    ELSE registerAll(registerBuilding(reg, meshes[k].name, meshes[k]), meshes, k + 1)

\* Mutant of showBuildingsUpToYear: edge-triggered, every building at or
\* below the year is advanced one state on each call.
showBuildingsAdvance(reg, year, animate) ==
    [id \in DOMAIN reg |->
        IF constructionYear(id) <= year /\ reg[id].state \in {"Hidden", "Revealing"}
        THEN [reg[id] EXCEPT !.state = IF @ = "Hidden" /\ animate THEN "Revealing" ELSE "Visible",
                             !.progress = 0]
        ELSE IF constructionYear(id) > year /\ reg[id].state \in {"Visible", "Hiding"}
        THEN [reg[id] EXCEPT !.state = IF @ = "Visible" /\ animate THEN "Hiding" ELSE "Hidden",
                             !.progress = 0]
        ELSE reg[id]]

\* showBuildingsUpToYear(year, animate): Hidden buildings built by the year
\* start revealing, Visible buildings built after it start hiding, the others
\* are left as they are.
showBuildingsUpToYear(reg, year, animate) ==
    [id \in DOMAIN reg |->
        IF constructionYear(id) <= year /\ reg[id].state = "Hidden"
        THEN [reg[id] EXCEPT !.state = IF animate THEN "Revealing" ELSE "Visible",
                             !.progress = 0]
        ELSE IF constructionYear(id) > year /\ reg[id].state = "Visible"
        THEN [reg[id] EXCEPT !.state = IF animate THEN "Hiding" ELSE "Hidden",
                             !.progress = 0]
        ELSE reg[id]]

\* One frame of the per-building animations: progress advances, and at
\* full progress Revealing becomes Visible and Hiding becomes Hidden.
animateFrame(reg) ==
    [id \in DOMAIN reg |->
        IF reg[id].state \in {"Revealing", "Hiding"}
        THEN IF reg[id].progress + 1 >= AnimFrames
             THEN [reg[id] EXCEPT !.state = IF @ = "Revealing" THEN "Visible" ELSE "Hidden",
                                  !.progress = 0]
             ELSE [reg[id] EXCEPT !.progress = @ + 1]
        ELSE reg[id]]

\* startTimeline: showBuildingsUpToYear(2001, true)
InitialYear == 2001


\* --------------------------------------------------------------- selection

\* mesh.userData.fileName || mesh.userData.buildingName: set on building
\* meshes only.
hasBuildingName(mesh) == mesh.kind = "building"

\* Mutant of highlightBuilding: the previous highlight is not reset.
highlightKeepPrevious(hex, highlighted, mesh) ==
    IF mesh # NoMesh /\ mesh.emissive
    THEN [hex |-> [hex EXCEPT ![mesh] = HexHighlight], highlighted |-> mesh]
    ELSE [hex |-> hex, highlighted |-> NoMesh]

\* highlightBuilding(mesh); NoMesh stands for null.
highlightBuilding(hex, highlighted, mesh) ==
    LET cleared == IF highlighted # NoMesh /\ highlighted.emissive
                   THEN [hex EXCEPT ![highlighted] = HexNeutral]
                   ELSE hex
    IN  IF mesh # NoMesh /\ mesh.emissive
        THEN [hex |-> [cleared EXCEPT ![mesh] = HexHighlight], highlighted |-> mesh]
        ELSE [hex |-> cleared, highlighted |-> NoMesh]

\* ------------------------------------------------------------------ loader

\* Mutant of endIndexOf: the batch takes one item too many.
endIndexOversize(startIndex) == Min(startIndex + buildingsPerBatch + 1, NumFiles)

\* const endIndex = Math.min(startIndex + buildingsPerBatch, buildingFiles.length)
endIndexOf(startIndex) == Min(startIndex + buildingsPerBatch, NumFiles)

\* The for loop of loadBatch: a fetch is started for each index of the batch
\* (no entry of buildingFiles is empty, so none is skipped).
startFetches(fs, startIndex) ==
    [i \in FileIndex |->
        IF startIndex <= i /\ i < endIndexOf(startIndex) THEN "pending" ELSE fs[i]]

\* The indices whose fetches loadBatch(startIndex) pushes to promises:
\* start <= i < end.
promisesOf(startIndex) == [start |-> startIndex, end |-> endIndexOf(startIndex)]

\* The Promise.all(promises).then continuation loadBatch leaves behind.
allContinuation(startIndex) ==
    [kind |-> "all", start |-> startIndex, end |-> endIndexOf(startIndex)]

\* Mutant of moreToLoad: completion decided by the position in the list.
moreToLoadByIndex(count, endIndex) == endIndex < NumFiles

\* if (loadedCount < buildingFiles.length)
moreToLoad(count, endIndex) == count < NumFiles

\* A sequence without its k-th element.
Remove(s, k) == SubSeq(s, 1, k - 1) \o SubSeq(s, k + 1, Len(s))

Settled(i) == fetchState[i] \in {"loaded", "failed"}

Init ==
    /\ fetchState = startFetches([i \in FileIndex |-> "unstarted"], 0)
    /\ response = [i \in FileIndex |-> FailedFetch]
    /\ loadedCount = 0
    /\ conts = << allContinuation(0) >>
    /\ batches = << promisesOf(0) >>
    /\ timelineStarts = 0
    /\ campusGroup = {Ground}
    /\ buildingMaterialCursor = 0
    /\ registerLog = {}
    /\ walkState = "pending"
    /\ roadState = "pending"
    /\ registry = << >>
    /\ currentYear = 0
    /\ paused = FALSE
    /\ highlightedBuilding = NoMesh
    /\ emissiveHex = (Ground :> HexNeutral)
    /\ panel = [updated |-> FALSE, id |-> {}]
    /\ lastHit = [clicked |-> FALSE, object |-> NoMesh]

\* Mutant of thenMeshes: once a fetch has failed, the results of the others
\* are dropped.
thenMeshesUnlessFailed(i, p) ==
    IF \E j \in FileIndex : fetchState[j] = "failed" THEN << >>
    ELSE IF Len(p.features) > 0
    THEN BuildingMeshes(buildingFiles[i], p.features, buildingMaterialCursor)
    ELSE << >>

\* The meshes the callback .then(data => ...) of the fetch of buildingFiles[i]
\* creates: if (data.features && data.features.length > 0) ...
thenMeshes(i, p) ==
    IF Len(p.features) > 0
    THEN BuildingMeshes(buildingFiles[i], p.features, buildingMaterialCursor)
    ELSE << >>

\* The fetch of buildingFiles[i] settles with payload p and its then / catch
\* callbacks run.  loadedCount++ is reached only when the callback did not
\* throw; a new mesh's cloned material has the default, neutral emissive
\* colour.
FetchSettle(i, p) ==
    /\ fetchState[i] = "pending"
    /\ response' = [response EXCEPT ![i] = p]
    /\ IF p.ok
       THEN LET made == thenMeshes(i, p)
                threw == Throws(p.features)
            IN  /\ campusGroup' = campusGroup \cup Range(made)
                /\ registerLog' = registerLog \cup Range(made)
                /\ registry' = registerAll(registry, made, 1)
                /\ buildingMaterialCursor' = buildingMaterialCursor + Len(made)
                /\ emissiveHex' = [m \in Range(made) |-> HexNeutral] @@ emissiveHex
                /\ loadedCount' = IF threw THEN loadedCount ELSE loadedCount + 1
                /\ fetchState' = [fetchState EXCEPT ![i] = IF threw THEN "failed" ELSE "loaded"]
       ELSE /\ fetchState' = [fetchState EXCEPT ![i] = "failed"]
            /\ UNCHANGED <<campusGroup, registerLog, registry, buildingMaterialCursor,
                           emissiveHex, loadedCount>>
    /\ UNCHANGED <<conts, batches, timelineStarts, walkState, roadState,
                   currentYear, paused, highlightedBuilding, panel, lastHit>>

\* Promise.all(promises).then(...) of the batch conts[k] runs: every promise
\* of the batch has settled.
PromiseAllThen(k) ==
    /\ k \in 1..Len(conts)
    /\ conts[k].kind = "all"
    /\ \A i \in FileIndex : (conts[k].start <= i /\ i < conts[k].end) => Settled(i)
    /\ IF moreToLoad(loadedCount, conts[k].end)
       THEN /\ conts' = Remove(conts, k) \o
                        << [kind |-> "timer", start |-> conts[k].end, end |-> conts[k].end] >>
            /\ UNCHANGED <<timelineStarts, registry, currentYear>>
       ELSE /\ conts' = Remove(conts, k)
            /\ timelineStarts' = timelineStarts + 1
            /\ registry' = showBuildingsUpToYear(registry, InitialYear, TRUE)
            /\ currentYear' = InitialYear
    /\ UNCHANGED <<fetchState, response, loadedCount, batches, campusGroup,
                   buildingMaterialCursor, registerLog, walkState, roadState, paused,
                   highlightedBuilding, emissiveHex, panel, lastHit>>

\* setTimeout(() => loadBatch(endIndex), 50) fires.
TimerFire(k) ==
    /\ k \in 1..Len(conts)
    /\ conts[k].kind = "timer"
    /\ fetchState' = startFetches(fetchState, conts[k].start)
    /\ conts' = Remove(conts, k) \o << allContinuation(conts[k].start) >>
    /\ batches' = IF promisesOf(conts[k].start).start < promisesOf(conts[k].start).end
                   THEN Append(batches, promisesOf(conts[k].start))
                   ELSE batches
    /\ UNCHANGED <<response, loadedCount, timelineStarts, campusGroup,
                   buildingMaterialCursor, registerLog, walkState, roadState,
                   registry, currentYear, paused, highlightedBuilding, emissiveHex,
                   panel, lastHit>>

\* loadWalkways: the fetch of data/walkways.geojson settles with payload p.
WalkwaysLoaded(p) ==
    /\ walkState = "pending"
    /\ walkState' = "done"
    /\ LET made == IF p.ok THEN WalkwayMeshes(p.features) ELSE {}
       IN  /\ campusGroup' = campusGroup \cup made
           /\ emissiveHex' = [m \in made |-> HexNeutral] @@ emissiveHex
    /\ UNCHANGED <<fetchState, response, loadedCount, conts, batches,
                   timelineStarts, buildingMaterialCursor, registerLog, roadState,
                   registry, currentYear, paused, highlightedBuilding, panel, lastHit>>

\* loadGeoJson('data/roads.geojson', ...): the fetch settles with payload p.
GeoJsonLoaded(p) ==
    /\ roadState = "pending"
    /\ roadState' = "done"
    /\ LET made == IF p.ok THEN GeoJsonMeshes(p.features) ELSE {}
       IN  /\ campusGroup' = campusGroup \cup made
           /\ emissiveHex' = [m \in made |-> HexNeutral] @@ emissiveHex
    /\ UNCHANGED <<fetchState, response, loadedCount, conts, batches,
                   timelineStarts, buildingMaterialCursor, registerLog, walkState,
                   registry, currentYear, paused, highlightedBuilding, panel, lastHit>>

\* ---------------------------------------------------------------- timeline

\* handleYearChange(year, animate), the year callback of the timeline UI.
handleYearChange(reg, year, animate) == showBuildingsUpToYear(reg, year, animate)

YearChange(year, animate) ==
    /\ registry' = handleYearChange(registry, year, animate)
    /\ currentYear' = year
    /\ UNCHANGED <<loaderVars, geoVars, paused, selVars>>

\* The play callback of the timeline UI: buildingAnimator.setPaused(!isPlaying).
PlayingChange(isPlaying) ==
    /\ paused' = ~isPlaying
    /\ UNCHANGED <<loaderVars, geoVars, registry, currentYear, selVars>>

\* One frame of the animator's clock.
AnimationFrame ==
    /\ ~paused
    /\ registry' = animateFrame(registry)
    /\ UNCHANGED <<loaderVars, geoVars, currentYear, paused, selVars>>

\* ------------------------------------------------------------- interaction

\* handlePointerClick with hit = intersects[0].object, NoMesh when the ray
\* meets no child of campusGroup.
PointerDown(hit) ==
    /\ lastHit' = [clicked |-> TRUE, object |-> hit]
    /\ IF hit # NoMesh
       THEN IF hasBuildingName(hit)
            THEN LET h == highlightBuilding(emissiveHex, highlightedBuilding, hit)
                 IN  /\ emissiveHex' = h.hex
                     /\ highlightedBuilding' = h.highlighted
                     /\ panel' = [updated |-> TRUE, id |-> {hit.name}]
            ELSE UNCHANGED <<emissiveHex, highlightedBuilding, panel>>
       ELSE LET h == highlightBuilding(emissiveHex, highlightedBuilding, NoMesh)
            IN  /\ emissiveHex' = h.hex
                /\ highlightedBuilding' = h.highlighted
                /\ panel' = [updated |-> TRUE, id |-> {}]
    /\ UNCHANGED <<loaderVars, geoVars, animVars>>

\* ---------------------------------------------------------- specifications

LoaderNext ==
    \/ \E i \in FileIndex, p \in BuildingPayloads : FetchSettle(i, p)
    \/ \E k \in 1..Len(conts) : PromiseAllThen(k)
    \/ \E k \in 1..Len(conts) : TimerFire(k)

\* The batch loader alone.
LoaderSpec == Init /\ [][LoaderNext]_vars

\* The batch loader with its scheduling: a started fetch settles, a settled
\* batch's continuation runs, a set timer fires.
FairLoaderSpec ==
    /\ Init /\ [][LoaderNext]_vars
    /\ WF_vars(\E i \in FileIndex, p \in BuildingPayloads : FetchSettle(i, p))
    /\ WF_vars(\E k \in 1..Len(conts) : PromiseAllThen(k))
    /\ WF_vars(\E k \in 1..Len(conts) : TimerFire(k))

TimelineNext ==
    \/ \E i \in FileIndex, p \in BuildingPayloads : FetchSettle(i, p)
    \/ \E k \in 1..Len(conts) : PromiseAllThen(k)
    \/ \E k \in 1..Len(conts) : TimerFire(k)
    \/ \E y \in TimelineYears, a \in BOOLEAN : YearChange(y, a)
    \/ \E b \in BOOLEAN : PlayingChange(b)
    \/ AnimationFrame

\* The batch loader and the timeline callbacks.
TimelineSpec == Init /\ [][TimelineNext]_vars

SelectionNext ==
    \/ \E i \in FileIndex, p \in BuildingPayloads : FetchSettle(i, p)
    \/ \E k \in 1..Len(conts) : PromiseAllThen(k)
    \/ \E k \in 1..Len(conts) : TimerFire(k)
    \/ \E hit \in campusGroup \cup {NoMesh} : PointerDown(hit)

\* The batch loader and pointer selection.
SelectionSpec == Init /\ [][SelectionNext]_vars

GeoNext ==
    \/ \E i \in FileIndex, p \in BuildingPayloads : FetchSettle(i, p)
    \/ \E k \in 1..Len(conts) : PromiseAllThen(k)
    \/ \E k \in 1..Len(conts) : TimerFire(k)
    \/ \E p \in WalkwayPayloads : WalkwaysLoaded(p)
    \/ \E p \in RoadPayloads : GeoJsonLoaded(p)

\* The three loading paths.
GeoSpec == Init /\ [][GeoNext]_vars

\* The body of a building file with one quadrilateral footprint.
PlainFeatures == << Feature(<<4>>, "none") >>

\* The meshes in the scene when each building file delivered PlainFeatures,
\* the fetches settling in list order.
PlainMeshes == [k \in 1..NumFiles |->
                   BuildingMeshes(buildingFiles[k - 1], PlainFeatures, k - 1)[1]]

\* The state in which the loader has loaded every file (each with
\* PlainFeatures, settling in list order) and startTimeline has run; a state
\* TimelineSpec reaches.
LoadedInit ==
    /\ fetchState = [i \in FileIndex |-> "loaded"]
    /\ response = [i \in FileIndex |-> Payload(PlainFeatures)]
    /\ loadedCount = NumFiles
    /\ conts = << >>
    /\ batches = [m \in 1..CeilDiv(NumFiles, buildingsPerBatch) |->
                      promisesOf((m - 1) * buildingsPerBatch)]
    /\ timelineStarts = 1
    /\ campusGroup = {Ground} \cup Range(PlainMeshes)
    /\ buildingMaterialCursor = NumFiles
    /\ registerLog = Range(PlainMeshes)
    /\ walkState = "pending"
    /\ roadState = "pending"
    /\ registry = showBuildingsUpToYear(registerAll(<< >>, PlainMeshes, 1), InitialYear, TRUE)
    /\ currentYear = InitialYear
    /\ paused = FALSE
    /\ highlightedBuilding = NoMesh
    /\ emissiveHex = [m \in {Ground} \cup Range(PlainMeshes) |-> HexNeutral]
    /\ panel = [updated |-> FALSE, id |-> {}]
    /\ lastHit = [clicked |-> FALSE, object |-> NoMesh]

AnimatorNext ==
    \/ \E y \in TimelineYears, a \in BOOLEAN : YearChange(y, a)
    \/ \E b \in BOOLEAN : PlayingChange(b)
    \/ AnimationFrame

\* The timeline callbacks and the animator once every building is loaded.
AnimatorSpec == LoadedInit /\ [][AnimatorNext]_vars

Next ==
    \/ \E i \in FileIndex, p \in BuildingPayloads : FetchSettle(i, p)
    \/ \E k \in 1..Len(conts) : PromiseAllThen(k)
    \/ \E k \in 1..Len(conts) : TimerFire(k)
    \/ \E p \in WalkwayPayloads : WalkwaysLoaded(p)
    \/ \E p \in RoadPayloads : GeoJsonLoaded(p)
    \/ \E y \in TimelineYears, a \in BOOLEAN : YearChange(y, a)
    \/ \E b \in BOOLEAN : PlayingChange(b)
    \/ AnimationFrame
    \/ \E hit \in campusGroup \cup {NoMesh} : PointerDown(hit)

\* The whole program.
Spec == Init /\ [][Next]_vars


\* ------------------------------------------------------------------ claims

AllFetchesSettled == \A i \in FileIndex : Settled(i)

MeshesOf(i) == { m \in campusGroup : m.kind = "building" /\ m.name = cleanFileName(buildingFiles[i]) }

Highlighted == { m \in DOMAIN emissiveHex : emissiveHex[m] = HexHighlight }

StateOf(id) == registry[id].state

\* C1: whatever the outcomes of the fetches, once every fetch has settled
\* the loader eventually calls startTimeline, also when a fetch failed.
C1_EventuallyFullyLoaded == AllFetchesSettled ~> (timelineStarts > 0)

\* C2: showBuildingsUpToYear is never called (by startTimeline or by
\* handleYearChange) before the loader has reported completion: a step that
\* sets the animator's year leaves the loader having called startTimeline.
C2_NoShowBeforeLoaded == [][currentYear' # currentYear => timelineStarts' > 0]_vars

\* C3: the fetches are issued as ceil(N/B) batches, batch m being the items
\* (m-1)*B .. min(m*B, N) - 1 of the list; a batch is started only when every
\* fetch of the batch before has settled; startTimeline is called only when
\* all N fetches have settled.
C3_BatchPlan ==
    /\ Len(batches) <= CeilDiv(NumFiles, buildingsPerBatch)
    /\ \A m \in 1..Len(batches) :
          /\ batches[m].start = (m - 1) * buildingsPerBatch
          /\ batches[m].end = Min(m * buildingsPerBatch, NumFiles)
          /\ batches[m].end - batches[m].start <= buildingsPerBatch
          /\ m > 1 => \A i \in FileIndex :
                         (batches[m - 1].start <= i /\ i < batches[m - 1].end) => Settled(i)
    /\ \A i \in FileIndex :
          fetchState[i] # "unstarted"
             <=> \E m \in 1..Len(batches) : batches[m].start <= i /\ i < batches[m].end
    /\ timelineStarts > 0 =>
          /\ AllFetchesSettled
          /\ Len(batches) = CeilDiv(NumFiles, buildingsPerBatch)

\* C3 witness: all batches were issued, more than one, and startTimeline ran.
C3_AllBatchesIssued ==
    /\ timelineStarts > 0
    /\ Len(batches) = CeilDiv(NumFiles, buildingsPerBatch)
    /\ Len(batches) > 1

\* C4: a file that loaded has a mesh in the scene, registered with the
\* animator, for every polygon of at least 3 points it holds, whichever
\* other files failed and in whatever order the fetches settled.
C4_FailureIsolated ==
    \A i \in FileIndex :
        fetchState[i] = "loaded" =>
            \A f \in 1..Len(response[i].features) :
                \A j \in 1..Len(response[i].features[f].polys) :
                    response[i].features[f].polys[j] >= 3 =>
                        \E m \in MeshesOf(i) \cap registerLog :
                            /\ m.feat = f
                            /\ m.poly = j
                            /\ m.ring = response[i].features[f].polys[j]

\* C4 witness: the first file of the first batch failed, the other file of
\* that batch and the file of the next batch loaded with meshes.
C4_LoadedBesideFailure ==
    /\ fetchState[0] = "failed"
    /\ fetchState[1] = "loaded" /\ MeshesOf(1) # {}
    /\ fetchState[NumFiles - 1] = "loaded" /\ MeshesOf(NumFiles - 1) # {}
    /\ Len(batches) > 1

\* C5: a call showBuildingsUpToYear(Y2) after showBuildingsUpToYear(Y1) with
\* Y2 < Y1 leaves every building with Y2 < constructionYear <= Y1 Hiding or
\* Hidden and every building with constructionYear > Y1 Hidden, however few
\* frames passed between the calls.
C5_ScrubBackHides ==
    [][currentYear' < currentYear =>
          \A id \in DOMAIN registry' :
              /\ (currentYear' < constructionYear(id) /\ constructionYear(id) <= currentYear)
                    => registry'[id].state \in {"Hiding", "Hidden"}
              /\ constructionYear(id) > currentYear => registry'[id].state = "Hidden"]_vars

\* C6: after a pointer-down the highlighted meshes are exactly the nearest
\* hit when it is a building mesh with an emissive material, and none
\* otherwise; the info panel shows the nearest hit's building id, or none
\* when the ray hit no building.
C6_SelectAt ==
    lastHit.clicked =>
        /\ Highlighted = IF hasBuildingName(lastHit.object) /\ lastHit.object.emissive
                         THEN {lastHit.object} ELSE {}
        /\ panel = [updated |-> TRUE,
                    id |-> IF hasBuildingName(lastHit.object)
                           THEN {lastHit.object.name} ELSE {}]

\* C7: from every reachable state of the registry, a second call
\* showBuildingsUpToYear(Y, true) right after a first with the same Y changes
\* no building's state and starts no animation.
C7_ShowIdempotent ==
    \A y \in TimelineYears :
        handleYearChange(handleYearChange(registry, y, TRUE), y, TRUE)
            = handleYearChange(registry, y, TRUE)

\* C7 witness: after a year change, buildings are Revealing, Visible and
\* Hiding at once, one of them part-way through its animation.
C7_MixedStates ==
    /\ currentYear \in TimelineYears
    /\ \E a, b, c \in DOMAIN registry :
          /\ StateOf(a) = "Revealing"
          /\ StateOf(b) = "Visible"
          /\ StateOf(c) = "Hiding" /\ registry[c].progress > 0

\* C8: on every loading path (walkways, roads, split buildings) a polygon
\* whose outer ring has fewer than 3 points yields no mesh in the scene and
\* none registered.
C8_NoSolidForShortRing ==
    \A m \in campusGroup \cup registerLog : m.ring >= 3

\* C9: startTimeline is called at most once, and only when loadedCount is the
\* number of building files, every file loaded; at most one continuation of
\* loadBatch (a Promise.all or a timer) is pending.
C9_StartOnceWhenAllLoaded ==
    /\ timelineStarts <= 1
    /\ timelineStarts > 0 =>
          /\ loadedCount = NumFiles
          /\ \A i \in FileIndex : fetchState[i] = "loaded"
    /\ Len(conts) <= 1

\* C9 witness: startTimeline has run.
C9_TimelineStarted == timelineStarts = 1 /\ conts = << >>

\* C10: at most one mesh carries the highlight colour, it is
\* highlightedBuilding, and while highlightedBuilding is set the last
\* infoPanel.update carried its building name.
C10_SingleHighlight ==
    /\ Cardinality(Highlighted) <= 1
    /\ \A m \in Highlighted : m = highlightedBuilding
    /\ highlightedBuilding # NoMesh =>
          /\ highlightedBuilding \in Highlighted
          /\ panel = [updated |-> TRUE, id |-> {highlightedBuilding.name}]

\* C10 witness: a building is highlighted, another mesh with an emissive
\* material is in the scene, and the last pointer-down hit the ground.
C10_HighlightKeptOverGround ==
    /\ highlightedBuilding # NoMesh
    /\ lastHit.clicked /\ lastHit.object = Ground
    /\ \E m \in campusGroup : m.emissive /\ m # highlightedBuilding

====
